---- MODULE Spec2Model ----
(***************************************************************************)
(* Token and session lifecycle of the SkillForgeAI backend.                *)
(*                                                                         *)
(* JwtService (jwt.service.ts) and RedisService (redis.service.ts) are     *)
(* translated from the source.  The SessionManager and the RevocationIndex *)
(* that compose them (login, refresh, logout, verifyAccess) are not in the *)
(* source tree; they are modelled from sections 3 to 6 of the              *)
(* specification, on top of the two services as the source has them.       *)
(* Every awaited RedisService call is one step of the calling operation.   *)
(*                                                                         *)
(* The browser side (authSlice.ts, lib/axios, the dashboard page and the   *)
(* header) is a second state machine, FrontSpec: the auth slice of the     *)
(* Redux store, localStorage, the location and the async thunks in flight. *)
(* One step is one browser task with the microtasks it queues.  The        *)
(* roadmap slice (roadmapSlice.ts, AiGenerator) is a third, RoadmapSpec.   *)
(***************************************************************************)
EXTENDS Integers, Sequences, FiniteSets, TLC

(* ------------------------------ bounds -------------------------------- *)
MaxTime == 3
MaxSessions == 2
MaxRot == 3
MaxProcs == 2
MaxCalls == 3
MaxThunks == 2
MaxDate == 2
MaxSaved == 3

Users == {"u1", "u2"}
SidNames == <<"s1", "s2", "s3", "s4">>
Sids == {SidNames[i] : i \in 1..MaxSessions}
Procs == 1..MaxProcs

(* ------------------- configuration (env.config) ----------------------- *)
accessSecret == "ACCESS_TOKEN_SECRET"
refreshSecret == "REFRESH_TOKEN_SECRET"
\* durations in clock ticks; the refresh expiry is the longer one
accessExpiry == 2
refreshExpiry == 3

VARIABLES
  now,        \* the clock, in whole seconds (jsonwebtoken's and Redis's unit)
  conn,       \* state of the Redis client: "initfail", "ready" or "down"
  store,      \* the Redis keyspace: key -> [value, expireAt] or Absent
  nextSid,    \* index of the next fresh sessionId
  gen,        \* ghost: per session, the token pairs issued, in order
  procs,      \* the in-flight SessionManager calls (logout, refresh)
  loggedOut,  \* ghost: sessions for which a logout has completed
  ended,      \* ghost: sessions that were revoked or whose record expired
  last,       \* the call that completed in the last step, if any
  io,         \* the RedisService call made in the last step, if any
  calls       \* number of SessionManager calls started so far

VARIABLES
  auth,          \* the auth slice of the Redux store
  roadmap,       \* the roadmap slice of the Redux store
  localStorage,  \* window.localStorage: key -> item, Null when missing
  pathname,      \* window.location.pathname, as its sequence of segments
  thunks,        \* the async thunks in flight, by slot
  dash,          \* the mounted DashboardPage and the values it last rendered
  ev             \* ghost: what the last browser task did

server == <<now, conn, store, nextSid, gen, procs, loggedOut, ended, last, io,
            calls>>
browser == <<auth, roadmap, localStorage, pathname, thunks, dash, ev>>
vars == <<server, browser>>

Null == [nil |-> TRUE]
Absent == [value |-> Null, expireAt |-> 0]
NoCall == [op |-> "none"]
NoIo == [op |-> "none"]
Idle == [pc |-> "idle"]

SessionKey(sessionId) == <<"session", sessionId>>
RevokedKey(subjectId) == <<"revoked", subjectId>>
Keys == {SessionKey(s) : s \in Sids} \cup {RevokedKey(x) : x \in Sids \cup Users}

(* ------------------------- jsonwebtoken ------------------------------- *)
\* jwt.sign(payload, secret, {expiresIn}): HS256 is deterministic, iat is
\* the clock in whole seconds and exp = iat + expiresIn, so equal payloads
\* signed in the same second give the same token.
jwtSign(payload, secret, expiresIn) ==
  [payload |-> payload, iat |-> now, exp |-> now + expiresIn, sig |-> secret]

\* jwt.verify(token, secret): the signature first, then exp against the clock.
jwtVerify(token, secret) ==
  IF token.sig # secret
    THEN [err |-> "TokenSignatureInvalid", payload |-> Null]
  ELSE IF now >= token.exp
    THEN [err |-> "TokenExpired", payload |-> Null]
  ELSE [err |-> "none", payload |-> token.payload]

(* --------------------------- JwtService ------------------------------- *)
generateAccessToken(userId) ==
  jwtSign([userId |-> userId], accessSecret, accessExpiry)

\* mutant: the refresh token signed with the access expiry
generateRefreshToken_accessExpiry(userId) ==
  jwtSign([userId |-> userId], refreshSecret, accessExpiry)

generateRefreshToken(userId) ==
  jwtSign([userId |-> userId], refreshSecret, refreshExpiry)

\* mutant: the access token verified against the refresh secret
verifyAccessToken_refreshSecret(token) == jwtVerify(token, refreshSecret)

verifyAccessToken(token) == jwtVerify(token, accessSecret)

\* mutant: the refresh token verified against the access secret
verifyRefreshToken_accessSecret(token) == jwtVerify(token, accessSecret)

verifyRefreshToken(token) == jwtVerify(token, refreshSecret)

(* -------------------------- RedisService ------------------------------ *)
\* The constructor only logs a failed connect(); every later client call on
\* a client that is not ready rejects.
clientOk == conn = "ready"

\* mutant: the catch block of set logs and returns
set_swallow(key, value, expirySeconds) ==
  IF clientOk
    THEN [err |-> FALSE,
          store |-> [store EXCEPT ![key] =
                       [value |-> value, expireAt |-> now + expirySeconds]]]
    ELSE [err |-> FALSE, store |-> store]

\* mutant: SET ... NX, an existing key is left as it is
set_nx(key, value, expirySeconds) ==
  IF clientOk
    THEN [err |-> FALSE,
          store |-> IF store[key] # Absent THEN store
                    ELSE [store EXCEPT ![key] =
                            [value |-> value,
                             expireAt |-> now + expirySeconds]]]
    ELSE [err |-> TRUE, store |-> store]

\* mutant: the write drops every other key
set_flush(key, value, expirySeconds) ==
  IF clientOk
    THEN [err |-> FALSE,
          store |-> [k \in DOMAIN store |->
                       IF k = key
                         THEN [value |-> value,
                               expireAt |-> now + expirySeconds]
                         ELSE Absent]]
    ELSE [err |-> TRUE, store |-> store]

\* set: setEx(key, expirySeconds, value); a rejection is rethrown.
set(key, value, expirySeconds) ==
  IF clientOk
    THEN [err |-> FALSE,
          store |-> [store EXCEPT ![key] =
                       [value |-> value, expireAt |-> now + expirySeconds]]]
    ELSE [err |-> TRUE, store |-> store]

\* mutant: the catch block of get returns null
get_swallow(key) ==
  IF clientOk
    THEN [err |-> FALSE, value |-> store[key].value]
    ELSE [err |-> FALSE, value |-> Null]

\* get: the value, or null when the key is absent; a rejection is rethrown.
get(key) ==
  IF clientOk
    THEN [err |-> FALSE, value |-> store[key].value]
    ELSE [err |-> TRUE, value |-> Null]

\* mutant: the catch block of del logs and returns
del_swallow(key) ==
  IF clientOk
    THEN [err |-> FALSE, store |-> [store EXCEPT ![key] = Absent]]
    ELSE [err |-> FALSE, store |-> store]

\* mutant: del throws when the client reports that no key was deleted
del_strict(key) ==
  IF clientOk /\ store[key] # Absent
    THEN [err |-> FALSE, store |-> [store EXCEPT ![key] = Absent]]
    ELSE [err |-> TRUE, store |-> store]

\* del: succeeds whether or not the key exists; the count is discarded.
del(key) ==
  IF clientOk
    THEN [err |-> FALSE, store |-> [store EXCEPT ![key] = Absent]]
    ELSE [err |-> TRUE, store |-> store]

Live(key) == store[key] # Absent

(* ----------------------- TokenIssuer (spec 4.1) ----------------------- *)
\* issueRefresh signs {sub, sid, iat, exp}: the refresh token of the source
\* with the session id added to its payload.
issueRefresh(userId, sessionId) ==
  [generateRefreshToken(userId) EXCEPT
     !.payload = [userId |-> userId, sid |-> sessionId]]

\* one-way hash of the token, taken collision-free
Fingerprint(token) == <<"fp", token>>

NoPair == [acc |-> Null, ref |-> Null]

(* ------------------------ the browser at rest ------------------------- *)
TOKEN_KEY == "skillforge_auth_token"
Thunks == 1..MaxThunks

initialState ==
  [user |-> Null, isAuthenticated |-> FALSE, isLoading |-> FALSE,
   error |-> Null]

\* initialState of the roadmap slice
roadmapInitialState ==
  [isGenerating |-> FALSE, draftRoadmap |-> Null, savedRoadmaps |-> <<>>,
   selectedRoadmap |-> Null, error |-> Null, isLoading |-> FALSE]

NoThunk == [type |-> "none"]
Unmounted == [mounted |-> FALSE]
NoEv == [op |-> "none"]

BrowserAtRest ==
  /\ auth = initialState
  /\ roadmap = roadmapInitialState
  /\ localStorage = [k \in {TOKEN_KEY} |-> Null]
  /\ pathname = <<>>
  /\ thunks = [i \in Thunks |-> NoThunk]
  /\ dash = Unmounted
  /\ ev = NoEv

(* ------------------------------ Init ---------------------------------- *)
Init ==
  /\ BrowserAtRest
  /\ now = 0
  /\ conn \in {"ready", "initfail"}
  /\ store = [k \in Keys |-> Absent]
  /\ nextSid = 1
  /\ gen = [s \in Sids |-> <<>>]
  /\ procs = [p \in Procs |-> Idle]
  /\ loggedOut = {}
  /\ ended = {}
  /\ last = NoCall
  /\ io = NoIo
  /\ calls = 0

(* ------------------------ clock and client ---------------------------- *)
\* Redis removes a key when its TTL has elapsed.
Expire(s, t) == [k \in Keys |-> IF s[k].expireAt <= t THEN Absent ELSE s[k]]

Tick ==
  /\ now < MaxTime
  /\ now' = now + 1
  /\ store' = Expire(store, now + 1)
  /\ ended' = ended \cup {s \in Sids : /\ Live(SessionKey(s))
                                       /\ ~Live(SessionKey(s))'}
  /\ last' = NoCall
  /\ io' = NoIo
  /\ UNCHANGED <<calls, conn, nextSid, gen, procs, loggedOut>>
  /\ UNCHANGED browser

\* the client's 'connect' event: a first connection or a reconnection
ClientConnect ==
  /\ conn # "ready"
  /\ conn' = "ready"
  /\ last' = NoCall
  /\ io' = NoIo
  /\ UNCHANGED <<calls, now, store, nextSid, gen, procs, loggedOut, ended>>
  /\ UNCHANGED browser

\* the client's 'error' event: the connection is lost
ClientError ==
  /\ conn = "ready"
  /\ conn' = "down"
  /\ last' = NoCall
  /\ io' = NoIo
  /\ UNCHANGED <<calls, now, store, nextSid, gen, procs, loggedOut, ended>>
  /\ UNCHANGED browser

\* the arguments of a RedisService call (get and del take the key only)
Args(key, value, expirySeconds) ==
  [key |-> key, value |-> value, expirySeconds |-> expirySeconds]

Io(caller, op, args, r) ==
  [op |-> op, caller |-> caller, args |-> args, err |-> r.err,
   clientOk |-> clientOk, initfail |-> conn = "initfail"]

(* ------------------------------ login --------------------------------- *)
Login(u) ==
  /\ calls < MaxCalls
  /\ calls' = calls + 1
  /\ nextSid <= MaxSessions
  /\ LET sid == SidNames[nextSid]
         acc == generateAccessToken(u)
         ref == issueRefresh(u, sid)
         rec == [userId |-> u, refreshFingerprint |-> Fingerprint(ref),
                 createdAt |-> now, lastRotatedAt |-> now]
         r == set(SessionKey(sid), rec, refreshExpiry)
     IN /\ io' = Io("login", "set", Args(SessionKey(sid), rec, refreshExpiry), r)
        /\ IF r.err
             THEN /\ last' = [op |-> "login", result |-> "StoreUnavailable",
                              sid |-> sid, userId |-> u, pair |-> NoPair]
                  /\ UNCHANGED <<store, nextSid, gen>>
             ELSE /\ store' = r.store
                  /\ nextSid' = nextSid + 1
                  /\ gen' = [gen EXCEPT ![sid] =
                               <<[acc |-> acc, ref |-> ref, from |-> 0,
                                  user |-> u]>>]
                  /\ last' = [op |-> "login", result |-> "ok", sid |-> sid,
                              userId |-> u,
                              pair |-> [acc |-> acc, ref |-> ref]]
  /\ UNCHANGED <<now, conn, procs, loggedOut, ended>>
  /\ UNCHANGED browser

(* --------------------- calls in flight (ghosts) ----------------------- *)
InFlight(sid) == {q \in Procs : procs[q].pc # "idle" /\ procs[q].sid = sid}

\* a call on sid starts: every call in flight on sid is no longer alone
Disturb(ps, sid) ==
  [q \in Procs |-> IF ps[q].pc # "idle" /\ ps[q].sid = sid
                     THEN [ps[q] EXCEPT !.clean = FALSE]
                     ELSE ps[q]]

Call(op, sid, k, tok) ==
  [pc |-> "start", op |-> op, sid |-> sid, k |-> k, tok |-> tok,
   rec |-> Null,
   rivalWon |-> FALSE,
   stale |-> k < Len(gen[sid]),
   afterLogout |-> sid \in loggedOut,
   repeat |-> sid \in loggedOut \/ ~Live(SessionKey(sid)),
   clean |-> InFlight(sid) = {},
   preRev |-> store[RevokedKey(sid)]]

Done(c, result, pair) ==
  [op |-> c.op, result |-> result, pair |-> pair, sid |-> c.sid, k |-> c.k,
   tok |-> c.tok, stale |-> c.stale, afterLogout |-> c.afterLogout,
   repeat |-> c.repeat, clean |-> c.clean, preRev |-> c.preRev,
   rivalWon |-> c.rivalWon]

\* a refresh presenting token k of sid succeeded: the calls in flight that
\* presented the same token have a rival that won
Won(ps, sid, k) ==
  [q \in Procs |-> IF ps[q].pc # "idle" /\ ps[q].op = "refresh"
                      /\ ps[q].sid = sid /\ ps[q].k = k
                     THEN [ps[q] EXCEPT !.rivalWon = TRUE]
                     ELSE ps[q]]

Presented(sid, k, kind) ==
  IF kind = "refresh" THEN gen[sid][k].ref ELSE gen[sid][k].acc

(* ----------------------------- refresh -------------------------------- *)
\* (1) verify signature and expiry, (2) read the session record,
\* (3) compare fingerprints.  A miss or a mismatch goes to the revocation
\* path, a match to the replacement of the record.
RefreshStart(p, sid, k, kind) ==
  /\ calls < MaxCalls
  /\ calls' = calls + 1
  /\ procs[p] = Idle
  /\ \A q \in Procs : q < p => procs[q] # Idle   \* the first free slot
  /\ k \in 1..Len(gen[sid])
  /\ LET tok == Presented(sid, k, kind)
         c == Call("refresh", sid, k, tok)
         v == verifyRefreshToken(tok)
         g == get(SessionKey(v.payload.sid))
     IN IF v.err # "none"
          THEN /\ last' = Done(c, v.err, NoPair)
               /\ io' = NoIo
               /\ procs' = Disturb(procs, sid)
          ELSE /\ io' = Io("refresh", "get",
                          Args(SessionKey(v.payload.sid), Null, 0), g)
               /\ IF g.err
                    THEN /\ last' = Done(c, "StoreUnavailable", NoPair)
                         /\ procs' = Disturb(procs, sid)
                    ELSE /\ last' = NoCall
                         /\ IF g.value # Null
                               /\ g.value.refreshFingerprint = Fingerprint(tok)
                              THEN /\ Len(gen[sid]) + Cardinality(
                                        {q \in InFlight(sid) :
                                           procs[q].pc \in {"del", "set"}})
                                        < MaxRot
                                   /\ procs' =
                                        [Disturb(procs, sid) EXCEPT ![p] =
                                           [c EXCEPT !.pc = "del",
                                                     !.rec = g.value]]
                              ELSE procs' =
                                     [Disturb(procs, sid) EXCEPT ![p] =
                                        [c EXCEPT !.pc = "rdel"]]
  /\ UNCHANGED <<now, conn, store, nextSid, gen, loggedOut, ended>>
  /\ UNCHANGED browser

\* (4) delete-then-write: the delete
RefreshDel(p) ==
  /\ procs[p].pc = "del"
  /\ LET c == procs[p]
         d == del(SessionKey(c.sid))
     IN /\ io' = Io("refresh", "del", Args(SessionKey(c.sid), Null, 0), d)
        /\ store' = d.store
        /\ IF d.err
             THEN /\ last' = Done(c, "StoreUnavailable", NoPair)
                  /\ procs' = [procs EXCEPT ![p] = Idle]
             ELSE /\ last' = NoCall
                  /\ procs' = [procs EXCEPT ![p].pc = "set"]
  /\ UNCHANGED <<calls, now, conn, nextSid, gen, loggedOut, ended>>
  /\ UNCHANGED browser

\* (5) issue the new pair under the same sessionId and write the record
RefreshSet(p) ==
  /\ procs[p].pc = "set"
  /\ LET c == procs[p]
         u == c.rec.userId
         acc == generateAccessToken(u)
         ref == issueRefresh(u, c.sid)
         rec == [userId |-> u, refreshFingerprint |-> Fingerprint(ref),
                 createdAt |-> c.rec.createdAt, lastRotatedAt |-> now]
         r == set(SessionKey(c.sid), rec, refreshExpiry)
     IN /\ io' = Io("refresh", "set",
                   Args(SessionKey(c.sid), rec, refreshExpiry), r)
        /\ store' = r.store
        /\ IF r.err
             THEN /\ last' = Done(c, "StoreUnavailable", NoPair)
                  /\ gen' = gen
                  /\ procs' = [procs EXCEPT ![p] = Idle]
             ELSE /\ last' = Done(c, "ok", [acc |-> acc, ref |-> ref])
                  /\ gen' = [gen EXCEPT ![c.sid] =
                               Append(@, [acc |-> acc, ref |-> ref,
                                          from |-> c.k, user |-> u])]
                  /\ procs' = [Won(procs, c.sid, c.k) EXCEPT ![p] = Idle]
  /\ UNCHANGED <<calls, now, conn, nextSid, loggedOut, ended>>
  /\ UNCHANGED browser

(* ------------------- revocation (logout, reuse) ----------------------- *)
\* reuse detected by refresh: delete the session record
RevokeDel(p) ==
  /\ procs[p].pc = "rdel"
  /\ LET c == procs[p]
         d == del(SessionKey(c.sid))
     IN /\ io' = Io(c.op, "del", Args(SessionKey(c.sid), Null, 0), d)
        /\ store' = d.store
        /\ IF d.err
             THEN /\ last' = Done(c, "StoreUnavailable", NoPair)
                  /\ procs' = [procs EXCEPT ![p] = Idle]
             ELSE /\ last' = NoCall
                  /\ procs' = [procs EXCEPT ![p].pc = "radd"]
  /\ UNCHANGED <<calls, now, conn, nextSid, gen, loggedOut, ended>>
  /\ UNCHANGED browser

\* RevocationIndex.add(sessionId), TTL = the access-token lifetime
RevokeAdd(p) ==
  /\ procs[p].pc = "radd"
  /\ LET c == procs[p]
         r == set(RevokedKey(c.sid), [revokedAt |-> now], accessExpiry)
     IN /\ io' = Io(c.op, "set",
                   Args(RevokedKey(c.sid), [revokedAt |-> now], accessExpiry), r)
        /\ store' = r.store
        /\ procs' = [procs EXCEPT ![p] = Idle]
        /\ IF r.err
             THEN /\ last' = Done(c, "StoreUnavailable", NoPair)
                  /\ UNCHANGED <<loggedOut, ended>>
             ELSE /\ last' = Done(c, IF c.op = "logout" THEN "ok"
                                     ELSE "SessionRevoked", NoPair)
                  /\ loggedOut' = IF c.op = "logout"
                                    THEN loggedOut \cup {c.sid}
                                    ELSE loggedOut
                  /\ ended' = ended \cup {c.sid}
  /\ UNCHANGED <<calls, now, conn, nextSid, gen>>
  /\ UNCHANGED browser

\* logout(sessionId): delete the session record, then add to the index
LogoutStart(p, sid) ==
  /\ calls < MaxCalls
  /\ calls' = calls + 1
  /\ procs[p] = Idle
  /\ \A q \in Procs : q < p => procs[q] # Idle   \* the first free slot
  /\ gen[sid] # <<>>      \* a session id is known only once issued
  /\ LET c == Call("logout", sid, 0, Null)
         d == del(SessionKey(sid))
     IN /\ io' = Io("logout", "del", Args(SessionKey(sid), Null, 0), d)
        /\ store' = d.store
        /\ IF d.err
             THEN /\ last' = Done(c, "StoreUnavailable", NoPair)
                  /\ procs' = Disturb(procs, sid)
             ELSE /\ last' = NoCall
                  /\ procs' = [Disturb(procs, sid) EXCEPT ![p] =
                                 [c EXCEPT !.pc = "radd"]]
  /\ UNCHANGED <<now, conn, nextSid, gen, loggedOut, ended>>
  /\ UNCHANGED browser

\* RevocationIndex.add(userId): mass revocation of a user
RevokeSubject(u) ==
  /\ calls < MaxCalls
  /\ calls' = calls + 1
  /\ LET r == set(RevokedKey(u), [revokedAt |-> now], accessExpiry)
     IN /\ io' = Io("revoke", "set",
                   Args(RevokedKey(u), [revokedAt |-> now], accessExpiry), r)
        /\ store' = r.store
        /\ last' = [op |-> "revoke", userId |-> u,
                    result |-> IF r.err THEN "StoreUnavailable" ELSE "ok"]
  /\ UNCHANGED <<now, conn, nextSid, gen, procs, loggedOut, ended>>
  /\ UNCHANGED browser

(* --------------------------- verifyAccess ----------------------------- *)
\* the subject identifiers a token's claims name: sub, and sid when present
Subjects(payload) ==
  {payload.userId} \cup
    (IF "sid" \in DOMAIN payload THEN {payload.sid} ELSE {})

\* signature and expiry first (no store read), then RevocationIndex.contains
VerifyAccess(sid, k, kind) ==
  /\ calls < MaxCalls
  /\ calls' = calls + 1
  /\ k \in 1..Len(gen[sid])
  /\ LET tok == Presented(sid, k, kind)
         v == verifyAccessToken(tok)
         hit == \E x \in Subjects(v.payload) : get(RevokedKey(x)).value # Null
         g == get(RevokedKey(v.payload.userId))
         res == IF v.err # "none" THEN v.err
                ELSE IF g.err THEN "StoreUnavailable"
                ELSE IF hit THEN "SessionRevoked"
                ELSE "ok"
     IN /\ io' = IF v.err # "none" THEN NoIo ELSE Io("verifyAccess", "get",
                        Args(RevokedKey(v.payload.userId), Null, 0), g)
        /\ last' = [op |-> "verifyAccess", result |-> res, tok |-> tok,
                    sid |-> sid, k |-> k, kind |-> kind,
                    userId |-> IF res = "ok" THEN v.payload.userId ELSE "",
                    revoked |-> IF v.err = "none"
                                  THEN \E x \in Subjects(v.payload) :
                                         Live(RevokedKey(x))
                                  ELSE FALSE]
  /\ UNCHANGED <<now, conn, store, nextSid, gen, procs, loggedOut, ended>>
  /\ UNCHANGED browser

Kinds == {"access", "refresh"}

Next ==
  \/ Tick
  \/ ClientConnect
  \/ ClientError
  \/ \E u \in Users : Login(u)
  \/ \E p \in Procs, sid \in Sids, k \in 1..MaxRot, kind \in Kinds :
       RefreshStart(p, sid, k, kind)
  \/ \E p \in Procs : RefreshDel(p)
  \/ \E p \in Procs : RefreshSet(p)
  \/ \E p \in Procs : RevokeDel(p)
  \/ \E p \in Procs : RevokeAdd(p)
  \/ \E p \in Procs, sid \in Sids : LogoutStart(p, sid)
  \/ \E u \in Users : RevokeSubject(u)
  \/ \E sid \in Sids, k \in 1..MaxRot, kind \in Kinds : VerifyAccess(sid, k, kind)

Spec == Init /\ [][Next]_vars

(* ============================ the browser ============================= *)
ServerAtRest ==
  /\ now = 0
  /\ conn = "ready"
  /\ store = [k \in Keys |-> Absent]
  /\ nextSid = 1
  /\ gen = [s \in Sids |-> <<>>]
  /\ procs = [p \in Procs |-> Idle]
  /\ loggedOut = {}
  /\ ended = {}
  /\ last = NoCall
  /\ io = NoIo
  /\ calls = 0

\* the routes of the app, as segment sequences ("/" is the empty one)
LoginPath == <<"login">>
DashboardPath == <<"dashboard">>
Paths == {<<>>, LoginPath, <<"signup">>, DashboardPath}

\* String.prototype.includes on a pathname, for a whole segment
includes(path, segment) == \E i \in 1..Len(path) : path[i] = segment

(* ----------------------------- lib/axios ------------------------------ *)
setItem(key, value) == [localStorage EXCEPT ![key] = value]
removeItem(key) == [localStorage EXCEPT ![key] = Null]
getItem(key) == localStorage[key]

setAuthToken(token) == setItem(TOKEN_KEY, token)

\* mutant: the token is left in place
removeAuthToken_keep == localStorage

removeAuthToken == removeItem(TOKEN_KEY)

\* the errors axios hands to the response interceptor: a response with a
\* status, a request without a response, or a failure in the request setup
AxiosErrors ==
  {[response |-> [status |-> st], request |-> TRUE] : st \in {401, 403, 500}}
    \cup {[response |-> Null, request |-> TRUE],
          [response |-> Null, request |-> FALSE]}

\* mutant: every response with a 4xx status clears the token
responseErrorHandler_any4xx(error) ==
  LET unauthorized == /\ error.response # Null
                      /\ error.response.status \in {401, 403}
  IN [localStorage |-> IF unauthorized THEN removeItem(TOKEN_KEY)
                       ELSE localStorage,
      redirect |-> unauthorized /\ ~includes(pathname, "login"),
      rejected |-> error]

\* responseErrorHandler: what it leaves in localStorage, whether it assigns
\* window.location.href = '/login', and the error it rejects with
responseErrorHandler(error) ==
  LET unauthorized == /\ error.response # Null
                      /\ error.response.status = 401
  IN [localStorage |-> IF unauthorized THEN removeItem(TOKEN_KEY)
                       ELSE localStorage,
      redirect |-> unauthorized /\ ~includes(pathname, "login"),
      rejected |-> error]

(* ----------------------------- authSlice ------------------------------ *)
clearAuthError(state) == [state EXCEPT !.error = Null]

loginUser_pending(state) ==
  [state EXCEPT !.isLoading = TRUE, !.error = Null]

loginUser_fulfilled(state, payload) ==
  [state EXCEPT !.isLoading = FALSE, !.isAuthenticated = TRUE,
                !.user = payload]

\* mutant: a rejected login signs the user out
loginUser_rejected_reset(state, payload) ==
  [state EXCEPT !.isLoading = FALSE, !.isAuthenticated = FALSE,
                !.user = Null,
                !.error = IF payload # Null THEN payload
                          ELSE [message |-> "Login failed"]]

\* action.payload || 'Login failed'
loginUser_rejected(state, payload) ==
  [state EXCEPT !.isLoading = FALSE,
                !.error = IF payload # Null THEN payload
                          ELSE [message |-> "Login failed"]]

\* mutant: only the user is cleared
logoutUser_fulfilled_userOnly(state) == [state EXCEPT !.user = Null]

logoutUser_fulfilled(state) ==
  [state EXCEPT !.user = Null, !.isAuthenticated = FALSE]

checkSession_pending(state) == [state EXCEPT !.isLoading = TRUE]

checkSession_fulfilled(state, payload) ==
  IF payload # Null
    THEN [state EXCEPT !.isLoading = FALSE, !.isAuthenticated = TRUE,
                       !.user = payload]
    ELSE [state EXCEPT !.isLoading = FALSE]

checkSession_rejected(state) ==
  [state EXCEPT !.isLoading = FALSE, !.isAuthenticated = FALSE,
                !.user = Null]

\* the demo account and the credentials a form may submit
Credentials ==
  {[email |-> "demo@skillforge.ai", password |-> pw] :
     pw \in {"demo123", "wrong"}}

\* the user objects, without their createdAt stamp
mockUser ==
  [id |-> "user-1", email |-> "demo@skillforge.ai", name |-> "Demo User"]

\* the payload creator of loginUser once its timer has fired: the action
\* it settles with and what it leaves in localStorage
loginUser(credentials, dateNow) ==
  IF credentials.email = "demo@skillforge.ai"
       /\ credentials.password = "demo123"
    THEN [type |-> "fulfilled",
          payload |-> [id |-> "user-1", email |-> credentials.email,
                       name |-> "Demo User"],
          localStorage |->
            setAuthToken([jwt |-> "mock-jwt-token-", at |-> dateNow])]
    ELSE [type |-> "rejected",
          payload |-> [message |-> "Invalid email or password"],
          localStorage |-> localStorage]

(* ------------------------- the browser's steps ------------------------ *)
FrontInit ==
  /\ ServerAtRest
  /\ auth = initialState
  /\ roadmap = roadmapInitialState
  /\ localStorage \in
       {[k \in {TOKEN_KEY} |-> item] :
          item \in {Null, [jwt |-> "mock-jwt-token-", at |-> 1]}}
  /\ pathname \in Paths
  /\ thunks = [i \in Thunks |-> NoThunk]
  /\ dash = Unmounted
  /\ ev = NoEv

\* what a task did, with the state it started from
Ev(x) ==
  x @@ [before |-> auth, storageBefore |-> localStorage,
        pathBefore |-> pathname, check |-> "none", tokenAtRun |-> FALSE,
        redirect |-> FALSE, checkDone |-> FALSE]

\* the first free slot
Free(i) ==
  /\ thunks[i] = NoThunk
  /\ \A j \in Thunks : j < i => thunks[j] # NoThunk

\* the dashboard is gone: no checkSession in flight belongs to a mount
Orphan(ts) ==
  [i \in Thunks |-> IF ts[i].type = "checkSession"
                      THEN [ts[i] EXCEPT !.byMount = FALSE]
                      ELSE ts[i]]

\* dispatch(loginUser(credentials)): pending, then the 1500 ms timer
DispatchLoginUser(i, credentials) ==
  /\ Free(i)
  /\ auth' = loginUser_pending(auth)
  /\ thunks' = [thunks EXCEPT ![i] =
                  [type |-> "loginUser", credentials |-> credentials]]
  /\ ev' = Ev([op |-> "loginUser.pending"])
  /\ UNCHANGED <<localStorage, pathname, dash>>
  /\ UNCHANGED <<server, roadmap>>

\* the timer of a loginUser fires: the token is stored and fulfilled is
\* dispatched, or rejected is
LoginUserSettle(i, dateNow) ==
  /\ thunks[i].type = "loginUser"
  /\ LET r == loginUser(thunks[i].credentials, dateNow)
     IN /\ localStorage' = r.localStorage
        /\ auth' = IF r.type = "fulfilled"
                     THEN loginUser_fulfilled(auth, r.payload)
                     ELSE loginUser_rejected(auth, r.payload)
        /\ ev' = Ev([op |-> "loginUser." \o r.type])
  /\ thunks' = [thunks EXCEPT ![i] = NoThunk]
  /\ UNCHANGED <<pathname, dash>>
  /\ UNCHANGED <<server, roadmap>>

\* dispatch(checkSession()): pending and the read of the token in one go;
\* without a token it settles with null at once, with one the 500 ms timer
\* is awaited
DispatchCheckSession ==
  /\ IF getItem(TOKEN_KEY) = Null
       THEN /\ auth' = checkSession_fulfilled(checkSession_pending(auth), Null)
            /\ thunks' = thunks
            /\ ev' = Ev([op |-> "checkSession", check |-> "fulfilled"])
       ELSE /\ \E i \in Thunks :
                 /\ Free(i)
                 /\ thunks' = [thunks EXCEPT ![i] =
                                 [type |-> "checkSession", byMount |-> FALSE]]
            /\ auth' = checkSession_pending(auth)
            /\ ev' = Ev([op |-> "checkSession", check |-> "pending",
                         tokenAtRun |-> TRUE])
  /\ UNCHANGED <<localStorage, pathname, dash>>
  /\ UNCHANGED <<server, roadmap>>

\* the timer of a checkSession fires: fulfilled with the mock user
CheckSessionSettle(i) ==
  /\ thunks[i].type = "checkSession"
  /\ auth' = checkSession_fulfilled(auth, mockUser)
  /\ thunks' = [thunks EXCEPT ![i] = NoThunk]
  /\ dash' = IF dash.mounted /\ thunks[i].byMount
               THEN [dash EXCEPT !.checkDone = TRUE]
               ELSE dash
  /\ ev' = Ev([op |-> "checkSession", check |-> "fulfilled",
               tokenAtRun |-> TRUE])
  /\ UNCHANGED <<localStorage, pathname>>
  /\ UNCHANGED <<server, roadmap>>

\* dispatch(logoutUser()): the token is removed, then fulfilled
DispatchLogoutUser ==
  /\ localStorage' = removeAuthToken
  /\ auth' = logoutUser_fulfilled(auth)
  /\ ev' = Ev([op |-> "logoutUser"])
  /\ UNCHANGED <<pathname, thunks, dash>>
  /\ UNCHANGED <<server, roadmap>>

\* Header.handleLogout, on the pages that render the header for a signed-in
\* user: await dispatch(logoutUser()), then router.push('/login')
HandleLogout ==
  /\ pathname \in {<<>>, DashboardPath}
  /\ auth.isAuthenticated
  /\ localStorage' = removeAuthToken
  /\ auth' = logoutUser_fulfilled(auth)
  /\ pathname' = LoginPath
  /\ dash' = Unmounted
  /\ thunks' = Orphan(thunks)
  /\ ev' = Ev([op |-> "logoutUser"])
  /\ UNCHANGED <<server, roadmap>>

ClearAuthError ==
  /\ auth.error # Null
  /\ auth' = clearAuthError(auth)
  /\ ev' = Ev([op |-> "clearAuthError"])
  /\ UNCHANGED <<localStorage, pathname, thunks, dash>>
  /\ UNCHANGED <<server, roadmap>>

\* a request through axiosInstance fails.  The assignment to
\* window.location.href loads the login page: the document is replaced,
\* the store is created anew and the thunks in flight are gone.
ResponseError(error) ==
  /\ LET h == responseErrorHandler(error)
     IN /\ localStorage' = h.localStorage
        /\ ev' = Ev([op |-> "responseError", error |-> error,
                     rejected |-> h.rejected, redirect |-> h.redirect])
        /\ IF h.redirect
             THEN /\ pathname' = LoginPath
                  /\ auth' = initialState
                  /\ roadmap' = roadmapInitialState
                  /\ thunks' = [i \in Thunks |-> NoThunk]
                  /\ dash' = Unmounted
             ELSE UNCHANGED <<pathname, auth, roadmap, thunks, dash>>
  /\ UNCHANGED server

\* a client-side navigation (a Link, router.push): the store stays
Navigate(path) ==
  /\ path # pathname
  /\ pathname' = path
  /\ dash' = Unmounted
  /\ thunks' = Orphan(thunks)
  /\ ev' = Ev([op |-> "navigate"])
  /\ UNCHANGED <<auth, localStorage>>
  /\ UNCHANGED <<server, roadmap>>

(* ---------------------------- roadmapSlice ---------------------------- *)
clearDraft(state) == [state EXCEPT !.draftRoadmap = Null]

clearError(state) == [state EXCEPT !.error = Null]

\* mutant: the draft is kept while the next one is generated
generateRoadmap_pending_keepDraft(state) ==
  [state EXCEPT !.isGenerating = TRUE, !.error = Null]

generateRoadmap_pending(state) ==
  [state EXCEPT !.isGenerating = TRUE, !.error = Null,
                !.draftRoadmap = Null]

generateRoadmap_fulfilled(state, payload) ==
  [state EXCEPT !.isGenerating = FALSE, !.draftRoadmap = payload]

generateRoadmap_rejected(state, payload) ==
  [state EXCEPT !.isGenerating = FALSE,
                !.error = IF payload # Null THEN payload
                          ELSE [message |-> "Failed to generate roadmap"]]

saveRoadmap_pending(state) ==
  [state EXCEPT !.isLoading = TRUE, !.error = Null]

\* savedRoadmaps.unshift(payload)
saveRoadmap_fulfilled(state, payload) ==
  [state EXCEPT !.isLoading = FALSE,
                !.savedRoadmaps = <<payload>> \o @,
                !.draftRoadmap = Null]

saveRoadmap_rejected(state, payload) ==
  [state EXCEPT !.isLoading = FALSE,
                !.error = IF payload # Null THEN payload
                          ELSE [message |-> "Failed to save roadmap"]]

fetchRoadmaps_pending(state) ==
  [state EXCEPT !.isLoading = TRUE, !.error = Null]

fetchRoadmaps_fulfilled(state, payload) ==
  [state EXCEPT !.isLoading = FALSE, !.savedRoadmaps = payload]

fetchRoadmaps_rejected(state, payload) ==
  [state EXCEPT !.isLoading = FALSE,
                !.error = IF payload # Null THEN payload
                          ELSE [message |-> "Failed to fetch roadmaps"]]

\* the generation requests a form may submit (a non-empty skill)
Requests ==
  {[skill |-> "React", targetLevel |-> lv] :
     lv \in {"intermediate", "expert"}}

\* a roadmap, by the fields the slice and the generator read
generateRoadmap(request, dateNow) ==
  [id |-> [prefix |-> "draft-", at |-> dateNow],
   skill |-> request.skill,
   difficulty |-> IF request.targetLevel = "expert" THEN "advanced"
                  ELSE request.targetLevel,
   progress |-> 0]

saveRoadmap(draft, dateNow) ==
  [draft EXCEPT !.id = [prefix |-> "saved-", at |-> dateNow]]

mockRoadmaps ==
  <<[id |-> [prefix |-> "saved-", at |-> 1], skill |-> "React",
     difficulty |-> "intermediate", progress |-> 66],
    [id |-> [prefix |-> "saved-", at |-> 2], skill |-> "TypeScript",
     difficulty |-> "beginner", progress |-> 50]>>

\* the views AiGenerator renders for a state of the slice
Views(state) ==
  (IF state.draftRoadmap = Null /\ ~state.isGenerating
     THEN {"form"} ELSE {})
    \cup (IF state.isGenerating THEN {"loading"} ELSE {})
    \cup (IF state.draftRoadmap # Null /\ ~state.isGenerating
            THEN {"draft"} ELSE {})

HasFree(ts) == \E i \in Thunks : ts[i] = NoThunk

\* the thunk takes the first free slot
Put(ts, thunk) ==
  LET i == CHOOSE k \in Thunks :
             /\ ts[k] = NoThunk
             /\ \A j \in Thunks : j < k => ts[j] # NoThunk
  IN [ts EXCEPT ![i] = thunk]

\* the 1500 ms timer of a fetchRoadmaps fires: fulfilled with the mock list
FetchRoadmapsSettle(i) ==
  /\ thunks[i].type = "fetchRoadmaps"
  /\ roadmap' = fetchRoadmaps_fulfilled(roadmap, mockRoadmaps)
  /\ thunks' = [thunks EXCEPT ![i] = NoThunk]
  /\ ev' = Ev([op |-> "fetchRoadmaps.fulfilled"])
  /\ UNCHANGED <<auth, localStorage, pathname, dash>>
  /\ UNCHANGED server

\* the values of the store a render of DashboardPage reads
Selected(state) ==
  [authLoading |-> state.isLoading, isAuthenticated |-> state.isAuthenticated]

\* DashboardPage mounts: the first render reads the store, then its effects
\* run in order with the values of that render: checkSession is dispatched,
\* fetchRoadmaps is dispatched when the render saw isAuthenticated, and the
\* redirect effect calls router.push('/login') when the render saw neither
\* loading nor authenticated.
DashboardMount ==
  /\ pathname = DashboardPath
  /\ ~dash.mounted
  /\ LET seen == Selected(auth)
         token == getItem(TOKEN_KEY)
         redirect == ~seen.authLoading /\ ~seen.isAuthenticated
         checked == IF token = Null THEN Orphan(thunks)
                    ELSE Put(Orphan(thunks),
                             [type |-> "checkSession",
                              byMount |-> ~redirect])
     IN /\ token # Null => HasFree(thunks)
        /\ auth' = IF token = Null
                     THEN checkSession_fulfilled(
                            checkSession_pending(auth), Null)
                     ELSE checkSession_pending(auth)
        /\ IF seen.isAuthenticated
             THEN /\ HasFree(checked)
                  /\ roadmap' = fetchRoadmaps_pending(roadmap)
                  /\ thunks' = Put(checked, [type |-> "fetchRoadmaps"])
             ELSE /\ roadmap' = roadmap
                  /\ thunks' = checked
        /\ pathname' = IF redirect THEN LoginPath ELSE pathname
        /\ dash' = IF redirect THEN Unmounted
                   ELSE [mounted |-> TRUE, seen |-> seen,
                         checkDone |-> token = Null]
        /\ ev' = Ev([op |-> "dashboard", redirect |-> redirect,
                     checkDone |-> FALSE,
                     check |-> IF token = Null THEN "fulfilled"
                               ELSE "pending",
                     tokenAtRun |-> token # Null])
  /\ UNCHANGED localStorage
  /\ UNCHANGED server

\* the store changed: DashboardPage renders again and the effects whose
\* dependencies changed run with the new values: fetchRoadmaps when
\* isAuthenticated turned true, the redirect effect in any case
DashboardRender ==
  /\ dash.mounted
  /\ dash.seen # Selected(auth)
  /\ LET seen == Selected(auth)
         redirect == ~seen.authLoading /\ ~seen.isAuthenticated
         fetch == seen.isAuthenticated /\ ~dash.seen.isAuthenticated
     IN /\ pathname' = IF redirect THEN LoginPath ELSE pathname
        /\ dash' = IF redirect THEN Unmounted
                   ELSE [dash EXCEPT !.seen = seen]
        /\ IF fetch
             THEN /\ HasFree(thunks)
                  /\ roadmap' = fetchRoadmaps_pending(roadmap)
                  /\ thunks' = Put(thunks, [type |-> "fetchRoadmaps"])
             ELSE /\ roadmap' = roadmap
                  /\ thunks' = IF redirect THEN Orphan(thunks) ELSE thunks
        /\ ev' = Ev([op |-> "dashboard", redirect |-> redirect,
                     checkDone |-> dash.checkDone])
  /\ UNCHANGED <<auth, localStorage>>
  /\ UNCHANGED server

FrontNext ==
  \/ \E i \in Thunks, c \in Credentials : DispatchLoginUser(i, c)
  \/ \E i \in Thunks, d \in 1..MaxDate : LoginUserSettle(i, d)
  \/ DispatchCheckSession
  \/ \E i \in Thunks : CheckSessionSettle(i)
  \/ DispatchLogoutUser
  \/ HandleLogout
  \/ ClearAuthError
  \/ \E error \in AxiosErrors : ResponseError(error)
  \/ \E path \in Paths : Navigate(path)
  \/ DashboardMount
  \/ DashboardRender
  \/ \E i \in Thunks : FetchRoadmapsSettle(i)

FrontSpec == FrontInit /\ [][FrontNext]_vars

(* ------------------------ the roadmap generator ----------------------- *)
RoadmapInit ==
  /\ ServerAtRest
  /\ BrowserAtRest

\* dispatch(generateRoadmap(request)): pending, then the 3000 ms timer
DispatchGenerateRoadmap(request) ==
  /\ HasFree(thunks)
  /\ roadmap' = generateRoadmap_pending(roadmap)
  /\ thunks' = Put(thunks, [type |-> "generateRoadmap", request |-> request])
  /\ ev' = Ev([op |-> "generateRoadmap.pending"])
  /\ UNCHANGED <<auth, localStorage, pathname, dash>>
  /\ UNCHANGED server

\* the timer of a generateRoadmap fires: fulfilled with the mock roadmap
GenerateRoadmapSettle(i, dateNow) ==
  /\ thunks[i].type = "generateRoadmap"
  /\ roadmap' = generateRoadmap_fulfilled(
                  roadmap, generateRoadmap(thunks[i].request, dateNow))
  /\ thunks' = [thunks EXCEPT ![i] = NoThunk]
  /\ ev' = Ev([op |-> "generateRoadmap.fulfilled"])
  /\ UNCHANGED <<auth, localStorage, pathname, dash>>
  /\ UNCHANGED server

\* the roadmaps saved or about to be
Saving == {i \in Thunks : thunks[i].type = "saveRoadmap"}

\* AiGenerator.handleSave: dispatch(saveRoadmap(draftRoadmap)) when there
\* is a draft: pending, then the 1000 ms timer
HandleSave ==
  /\ roadmap.draftRoadmap # Null
  /\ HasFree(thunks)
  /\ Len(roadmap.savedRoadmaps) + Cardinality(Saving) < MaxSaved
  /\ roadmap' = saveRoadmap_pending(roadmap)
  /\ thunks' = Put(thunks, [type |-> "saveRoadmap",
                            draft |-> roadmap.draftRoadmap])
  /\ ev' = Ev([op |-> "saveRoadmap.pending"])
  /\ UNCHANGED <<auth, localStorage, pathname, dash>>
  /\ UNCHANGED server

\* the timer of a saveRoadmap fires: fulfilled with the saved roadmap
SaveRoadmapSettle(i, dateNow) ==
  /\ thunks[i].type = "saveRoadmap"
  /\ roadmap' = saveRoadmap_fulfilled(
                  roadmap, saveRoadmap(thunks[i].draft, dateNow))
  /\ thunks' = [thunks EXCEPT ![i] = NoThunk]
  /\ ev' = Ev([op |-> "saveRoadmap.fulfilled"])
  /\ UNCHANGED <<auth, localStorage, pathname, dash>>
  /\ UNCHANGED server

\* dispatch(fetchRoadmaps()): pending, then the 1500 ms timer
DispatchFetchRoadmaps ==
  /\ HasFree(thunks)
  /\ roadmap' = fetchRoadmaps_pending(roadmap)
  /\ thunks' = Put(thunks, [type |-> "fetchRoadmaps"])
  /\ ev' = Ev([op |-> "fetchRoadmaps.pending"])
  /\ UNCHANGED <<auth, localStorage, pathname, dash>>
  /\ UNCHANGED server

\* AiGenerator.handleReset: dispatch(clearDraft())
HandleReset ==
  /\ roadmap.draftRoadmap # Null
  /\ roadmap' = clearDraft(roadmap)
  /\ ev' = Ev([op |-> "clearDraft"])
  /\ UNCHANGED <<auth, localStorage, pathname, thunks, dash>>
  /\ UNCHANGED server

RoadmapNext ==
  \/ \E request \in Requests : DispatchGenerateRoadmap(request)
  \/ \E i \in Thunks, d \in 1..MaxDate : GenerateRoadmapSettle(i, d)
  \/ HandleSave
  \/ \E i \in Thunks, d \in 1..MaxDate : SaveRoadmapSettle(i, d)
  \/ DispatchFetchRoadmaps
  \/ \E i \in Thunks : FetchRoadmapsSettle(i)
  \/ HandleReset

RoadmapSpec == RoadmapInit /\ [][RoadmapNext]_vars

(* ======================= properties of the calls ====================== *)
Refreshed == last.op = "refresh" /\ last.result = "ok"
TokenErrors == {"TokenExpired", "TokenSignatureInvalid"}
\* a refresh that got past signature and expiry and met no store failure
RefreshJudged ==
  /\ last.op = "refresh"
  /\ last.result \notin TokenErrors \cup {"StoreUnavailable"}

\* C1: a refresh returns a new token pair whose access token verifyAccess
\* accepts, and every later refresh with the token it replaced fails with
\* SessionRevoked.
C1_RotationRetiresOldToken ==
  /\ Refreshed => /\ last.pair.ref # last.tok
                  /\ verifyAccessToken(last.pair.acc).err = "none"
  /\ (RefreshJudged /\ last.stale) => last.result = "SessionRevoked"

\* C2: of the refresh calls that present the same refresh token of one
\* session concurrently, exactly one succeeds; a call that was in flight
\* when a rival presenting the same token succeeded fails with
\* SessionRevoked or SessionNotFound.
C2_OneConcurrentRefreshWins ==
  (last.op = "refresh" /\ last.rivalWon /\ last.result # "StoreUnavailable")
    => last.result \in {"SessionRevoked", "SessionNotFound"}

\* C3: after a rotation, a refresh presenting the pre-rotation token fails
\* with SessionRevoked and revokes the session: the session id is in the
\* RevocationIndex and no session record is left for the current token.
C3_ReuseRevokesSession ==
  (RefreshJudged /\ last.stale) =>
     /\ last.result = "SessionRevoked"
     /\ Live(RevokedKey(last.sid))
     /\ ~Live(SessionKey(last.sid))

\* C4: after logout(sessionId) the session record is absent and a revoked
\* entry exists, and every later refresh with a token of that session fails
\* with SessionRevoked.
C4_LogoutIsFinal ==
  /\ \A sid \in loggedOut : ~Live(SessionKey(sid))
  /\ (last.op = "logout" /\ last.result = "ok") => Live(RevokedKey(last.sid))
  /\ (RefreshJudged /\ last.afterLogout) => last.result = "SessionRevoked"

\* a logout of a session that an earlier logout has already removed, or
\* that is absent, with no other call on the session in flight meanwhile
RepeatedLogout == last.op = "logout" /\ last.repeat /\ last.clean

C6_FailClosed ==
  /\ (io.op # "none" /\ io.caller \in {"login", "refresh"} /\ ~io.clientOk)
       => /\ last.op = io.caller
          /\ last.result = "StoreUnavailable"
          /\ last.pair = NoPair
  /\ (last.op \in {"login", "refresh"} /\ last.pair # NoPair)
       => /\ last.result = "ok"
          /\ Live(SessionKey(last.sid))
          /\ store[SessionKey(last.sid)].value.refreshFingerprint
               = Fingerprint(last.pair.ref)

C6_Witness ==
  /\ last.op = "refresh" /\ last.result = "StoreUnavailable"
  /\ io.op = "set" /\ ~io.clientOk

\* C7: a store set, get or delete whose client call failed raises an error,
\* also when the initial connection never succeeded.
C7_StoreErrorsSurface ==
  (io.op # "none" /\ ~io.clientOk) => io.err

C7_Witness ==
  /\ io.op = "set" /\ io.initfail /\ ~io.clientOk /\ io.err

\* C8: at every login and successful refresh the TTL of the session record
\* equals the lifetime of the refresh token issued with it, and the record
\* expires when that token does.
C8_TtlCoupling ==
  (last.op \in {"login", "refresh"} /\ last.result = "ok")
    => LET e == store[SessionKey(last.sid)]
           t == last.pair.ref
       IN /\ e.value.refreshFingerprint = Fingerprint(t)
          /\ e.expireAt - now = t.exp - t.iat
          /\ e.expireAt = t.exp

C8_Witness ==
  /\ Refreshed /\ now > 0
  /\ store[SessionKey(last.sid)].expireAt = now + refreshExpiry

\* C9: verifying an unexpired access token issued for u returns u, and
\* verifying an unexpired refresh token issued for u gives claims naming u.
C9_VerifyReturnsUser ==
  \A sid \in Sids : \A i \in 1..Len(gen[sid]) :
    LET e == gen[sid][i]
    IN /\ now < e.acc.exp =>
            verifyAccessToken(e.acc) =
              [err |-> "none", payload |-> [userId |-> e.user]]
       /\ now < e.ref.exp =>
            /\ verifyRefreshToken(e.ref).err = "none"
            /\ verifyRefreshToken(e.ref).payload.userId = e.user

\* a token of u2 is verified while an older token of the session has expired
C9_Witness ==
  \E sid \in Sids :
    /\ Len(gen[sid]) >= 2
    /\ gen[sid][2].user = "u2"
    /\ verifyAccessToken(gen[sid][2].acc).payload = [userId |-> "u2"]
    /\ verifyAccessToken(gen[sid][1].acc).err = "TokenExpired"

C11_KindBinding ==
  /\ \A sid \in Sids : \A i \in 1..Len(gen[sid]) :
       /\ verifyAccessToken(gen[sid][i].ref).err = "TokenSignatureInvalid"
       /\ verifyRefreshToken(gen[sid][i].acc).err = "TokenSignatureInvalid"
  /\ (last.op = "verifyAccess" /\ last.kind = "refresh")
       => last.result = "TokenSignatureInvalid"
  /\ (last.op = "refresh" /\ last.tok = gen[last.sid][last.k].acc)
       => /\ last.result = "TokenSignatureInvalid"
          /\ last.pair = NoPair

C11_Witness ==
  /\ last.op = "refresh" /\ last.tok = gen[last.sid][last.k].acc
  /\ now < last.tok.exp
  /\ last.result = "TokenSignatureInvalid"

\* C12: a session that was revoked (logout, reuse detection) or whose
\* record expired never has a session record again, and no refresh for its
\* session id succeeds afterwards.
C12_TerminalStates ==
  /\ \A sid \in ended : ~Live(SessionKey(sid))
  /\ Refreshed => last.sid \notin ended

\* refresh would accept the token for the session: signature and expiry
\* check out and the fingerprint is the session record's current one
Accepts(sid, token) ==
  /\ verifyRefreshToken(token).err = "none"
  /\ Live(SessionKey(sid))
  /\ store[SessionKey(sid)].value.refreshFingerprint = Fingerprint(token)

\* C13: of the refresh tokens issued for a session at most one is accepted
\* by refresh, and every token issued before the latest one is rejected.
C13_OneValidRefreshToken ==
  \A sid \in Sids :
    /\ Cardinality({k \in 1..Len(gen[sid]) :
                      Accepts(sid, gen[sid][k].ref)}) <= 1
    /\ \A k \in 1..(Len(gen[sid]) - 1) : ~Accepts(sid, gen[sid][k].ref)

\* C14: a set overwrites whatever the key held, so the entry after it is
\* the one written and repeating the call leaves the store as it is; a del
\* of an absent key succeeds and leaves the store unchanged.
C14_StoreIdempotent ==
  /\ (io.op = "set" /\ ~io.err) =>
       /\ store[io.args.key] =
            [value |-> io.args.value,
             expireAt |-> now + io.args.expirySeconds]
       /\ set(io.args.key, io.args.value, io.args.expirySeconds) =
            [err |-> FALSE, store |-> store]
  /\ \A k \in Keys :
       (clientOk /\ ~Live(k)) => del(k) = [err |-> FALSE, store |-> store]

\* a set that replaced a different entry of the same key
C14_Witness ==
  /\ io.op = "set" /\ ~io.err /\ io.caller = "logout"
  /\ last.op = "logout"
  /\ last.preRev # Absent
  /\ last.preRev # store[io.args.key]
  /\ \E k \in Keys : ~Live(k)

Unauthorized(error) ==
  error.response # Null /\ error.response.status = 401

\* C16: the response error handler rejects with the error it was given;
\* for a 401 response it removes the stored token and redirects to /login
\* unless the pathname already contains /login; for any other error it
\* leaves localStorage and the location as they were.
C16_ResponseErrorHandler ==
  ev.op = "responseError" =>
    /\ ev.rejected = ev.error
    /\ IF Unauthorized(ev.error)
         THEN /\ getItem(TOKEN_KEY) = Null
              /\ IF includes(ev.pathBefore, "login")
                   THEN ~ev.redirect /\ pathname = ev.pathBefore
                   ELSE ev.redirect /\ pathname = LoginPath
         ELSE /\ localStorage = ev.storageBefore
              /\ ~ev.redirect
              /\ pathname = ev.pathBefore

C16_Witness ==
  /\ ev.op = "responseError" /\ Unauthorized(ev.error)
  /\ ev.storageBefore[TOKEN_KEY] # Null
  /\ ev.before.isAuthenticated
  /\ ev.redirect

\* C17: when logoutUser has completed, whatever the auth state before, no
\* token is stored, user is null and isAuthenticated is false.
C17_LogoutClears ==
  ev.op = "logoutUser" =>
    /\ getItem(TOKEN_KEY) = Null
    /\ auth.user = Null
    /\ ~auth.isAuthenticated

C17_Witness ==
  /\ ev.op = "logoutUser"
  /\ ev.before.isAuthenticated /\ ev.before.isLoading
  /\ ev.storageBefore[TOKEN_KEY] # Null

\* C18: the dashboard's redirect to /login fires only once the checkSession
\* dispatched on mount has completed, and a dashboard opened on the initial
\* store state with a token stored is not redirected.
C18_RedirectAfterCheck ==
  /\ (ev.op = "dashboard" /\ ev.redirect) => ev.checkDone
  /\ (ev.op = "dashboard" /\ ev.before = initialState /\ ev.tokenAtRun)
       => ~ev.redirect

\* C19: when a checkSession completes, the auth state is authenticated
\* only if a token was in localStorage when that checkSession read it.
C19_CheckSessionNeedsToken ==
  (ev.op \in {"checkSession", "dashboard"} /\ ev.check = "fulfilled")
    => ((auth.isAuthenticated /\ auth.user # Null) => ev.tokenAtRun)

Coherent(state) == state.isAuthenticated <=> state.user # Null

\* C20: in every reachable state of the auth slice isAuthenticated is true
\* exactly when user is non-null, and every reducer of the slice keeps it
\* so from there.
C20_AuthenticatedIffUser ==
  /\ Coherent(auth)
  /\ Coherent(clearAuthError(auth))
  /\ Coherent(loginUser_pending(auth))
  /\ Coherent(loginUser_fulfilled(auth, mockUser))
  /\ Coherent(loginUser_rejected(auth, Null))
  /\ Coherent(logoutUser_fulfilled(auth))
  /\ Coherent(checkSession_pending(auth))
  /\ Coherent(checkSession_fulfilled(auth, Null))
  /\ Coherent(checkSession_fulfilled(auth, mockUser))
  /\ Coherent(checkSession_rejected(auth))

C20_Witness ==
  /\ auth.isAuthenticated /\ auth.user = mockUser
  /\ auth.isLoading /\ auth.error # Null
  /\ getItem(TOKEN_KEY) = Null

\* C21: whenever the auth slice has isAuthenticated true, a token is
\* stored in localStorage under the token key.
C21_AuthenticatedHasToken ==
  auth.isAuthenticated => getItem(TOKEN_KEY) # Null

\* C22: a rejected loginUser stores no token and leaves user and
\* isAuthenticated as they were; it sets isLoading to false and error to
\* the rejection message, or to 'Login failed' without one; the next
\* loginUser.pending resets error to null.
C22_RejectedLogin ==
  /\ ev.op = "loginUser.rejected" =>
       /\ localStorage = ev.storageBefore
       /\ auth.user = ev.before.user
       /\ auth.isAuthenticated = ev.before.isAuthenticated
       /\ ~auth.isLoading
       /\ auth.error = [message |-> "Invalid email or password"]
  /\ loginUser_rejected(auth, Null) =
       [auth EXCEPT !.isLoading = FALSE,
                    !.error = [message |-> "Login failed"]]
  /\ ev.op = "loginUser.pending" => auth.error = Null

\* a login is rejected for a signed-in user
C22_Witness ==
  /\ ev.op = "loginUser.rejected"
  /\ ev.before.isAuthenticated
  /\ ev.before.isLoading
  /\ ev.storageBefore[TOKEN_KEY] # Null
  /\ auth.error # Null

\* C23: isLoading is true whenever a loginUser or a checkSession is still
\* in flight; it is false only when none is.
C23_LoadingWhilePending ==
  (\E i \in Thunks : thunks[i].type \in {"loginUser", "checkSession"})
    => auth.isLoading

NoDraftWhileGenerating(state) ==
  state.isGenerating => state.draftRoadmap = Null

\* C24: in every reachable state of the roadmap slice isGenerating implies
\* that draftRoadmap is null, AiGenerator shows exactly one of its form,
\* loading and draft views, and every case of the slice's reducers, the
\* rejected ones and clearDraft included, leads from the state to one where
\* isGenerating again implies a null draftRoadmap.
C24_GeneratingHasNoDraft ==
  /\ NoDraftWhileGenerating(roadmap)
  /\ Cardinality(Views(roadmap)) = 1
  /\ roadmap.isGenerating <=> Views(roadmap) = {"loading"}
  /\ \A payload \in {Null, [message |-> "Network Error"]} :
       /\ NoDraftWhileGenerating(generateRoadmap_rejected(roadmap, payload))
       /\ NoDraftWhileGenerating(saveRoadmap_rejected(roadmap, payload))
       /\ NoDraftWhileGenerating(fetchRoadmaps_rejected(roadmap, payload))
  /\ NoDraftWhileGenerating(generateRoadmap_pending(roadmap))
  /\ NoDraftWhileGenerating(saveRoadmap_pending(roadmap))
  /\ NoDraftWhileGenerating(fetchRoadmaps_pending(roadmap))
  /\ NoDraftWhileGenerating(fetchRoadmaps_fulfilled(roadmap, mockRoadmaps))
  /\ NoDraftWhileGenerating(clearDraft(roadmap))
  /\ NoDraftWhileGenerating(clearError(roadmap))
  /\ \A request \in Requests, d \in 1..MaxDate :
       LET draft == generateRoadmap(request, d)
       IN /\ NoDraftWhileGenerating(generateRoadmap_fulfilled(roadmap, draft))
          /\ NoDraftWhileGenerating(
               saveRoadmap_fulfilled(roadmap, saveRoadmap(draft, d)))

\* a roadmap is generated while the previous draft is being saved
C24_Witness ==
  /\ ev.op = "generateRoadmap.pending"
  /\ roadmap.isGenerating
  /\ Saving # {}
  /\ roadmap.isLoading
====
